---- MODULE Spec2Model ----
(***************************************************************************)
(* Kid-Voiceover: the client-side audio pipeline.                          *)
(*                                                                         *)
(*   AudioPlayer        src/components/VoiceSelector.tsx  (lines 432-738)  *)
(*   App                src/unnamed/part_001              (lines 10-404)   *)
(*   geminiService      src/unnamed/part_001              (lines 409-844)  *)
(*                                                                         *)
(* Time is counted in ticks of 100 ms (the tolerance of the end-of-        *)
(* playback check is one tick).  Buffer positions and durations are        *)
(* counted in units of 10 ms, and a pitch in tenths (0.8 .. 1.5 is         *)
(* 8 .. 15), so that  elapsed * pitch  is an exact integer number of       *)
(* position units.                                                         *)
(***************************************************************************)
EXTENDS Integers, Sequences, FiniteSets, TLC

VARIABLES
  \* ---- AudioPlayer (component state, refs, and the browser objects it drives)
  now,                \* audioContext.currentTime, in ticks
  audioBuffer,        \* App state / AudioPlayer prop: Null or a buffer id
  pitch,              \* App config.pitch / AudioPlayer prop, in tenths
  isPlaying,          \* useState(false)
  progress,           \* useState(0): <<n, d>> is the percentage n / d
  sourceRef,          \* useRef: 0 (null) or the id of a source
  startTimeRef,       \* useRef(0)
  pausedAtRef,        \* useRef(0), position units
  animationFrameRef,  \* useRef(null): 0 or the closure of the last request
  sources,            \* the AudioBufferSourceNodes created so far
  rafPending,         \* play() closures with an animation frame requested
  lastPause,          \* history: offset computed by the last pause(), or -1
  playResult,         \* history: what the last call of play() did
  \* ---- App (component state and the handlers in flight)
  script,             \* useState: the script text, a sequence of characters
  apiKey,             \* process.env.API_KEY is set
  isGenerating,       \* useState(false)
  error,              \* useState(null)
  segments,           \* useState([]): the VoiceSegments
  activeVideoUrl,     \* useState(null)
  task,               \* the generate handler in flight, suspended at its await
  calls,              \* the generateVoiceover calls of the current handler run
  nextBuf,            \* AudioBuffers created so far (each is a new object)
  runs,               \* generate handlers started so far
  \* ---- the AudioBuffer handed to getWavBlob, and what it returns
  bufferData,         \* <<>> (null), or one sequence of samples per channel
  wavBlob,            \* <<>> (null), or the bytes of the WAV file
  waveform,           \* the canvas: its width and the magnitudes of its bars
  \* ---- App config (its pitch is the variable pitch) and the voice lab
  config,             \* useState: the VoiceConfig but for its pitch
  customVoices,       \* useState([]): the saved CustomVoices
  savedVoices,        \* voices saved so far (each id is a new Date.now())
  analysis,           \* <<>>, or the config captured by a running voice analysis
  \* ---- the browser and the video service
  videoJobs,          \* the calls of handleGenerateVideoForSegment, in order
  audioContexts       \* AudioContexts created and not closed

playerVars == <<now, audioBuffer, pitch, isPlaying, progress, sourceRef,
                startTimeRef, pausedAtRef, animationFrameRef, sources,
                rafPending, lastPause, playResult>>

wavVars == <<bufferData, wavBlob, waveform>>

configVars == <<config, customVoices, savedVoices, analysis>>

serviceVars == <<videoJobs, audioContexts>>

appVars == <<script, apiKey, isGenerating, error, segments, activeVideoUrl,
             task, calls, nextBuf, runs>>

vars == <<playerVars, appVars, wavVars, configVars, serviceVars>>

----------------------------------------------------------------------------
(* Bounds of the model *)

MaxTime == 3          \* ticks explored
MaxPlays == 4         \* sources created in one behaviour
MaxPitchPlays == 2    \* the same, while the pitch slider is moved
MaxRuns == 2          \* generate handlers started in one behaviour
MaxCalls == 3         \* segments of a script, and synthesis calls of a run
MaxFrames == 2        \* frames of a buffer handed to the WAV encoder
MaxVoices == 1        \* custom voices saved in one behaviour
MaxTextLen == 4       \* characters of a text handed to the synthesis
MaxScriptLen == 5     \* characters of a script cut into scenes
MaxWaveFrames == 3    \* samples of a buffer drawn as a waveform
MaxWidth == 4         \* width of the waveform canvas in pixels
MaxJobs == 2          \* video generations started in one behaviour

(* Program constants *)

Tolerance == 1        \* 0.1 s, in ticks
DefaultPitch == 12    \* 1.2
MinPitch == 8
MaxPitch == 15
DefaultAge == 8
MinAge == 7
MaxAge == 10

Null == 0

\* Durations of the buffers that can be bound, in position units.
BufferDurations == <<10, 25>>
Buffers == 1 .. Len(BufferDurations)
Duration(b) == BufferDurations[b]

Pitches == {DefaultPitch, MaxPitch}

Min(a, b) == IF a <= b THEN a ELSE b

----------------------------------------------------------------------------
(* The AudioBufferSourceNode (browser) *)

\* The position a source has reached at time t.
Reached(s, t) == s.offset + (t - s.start) * s.rate

\* source.stop(): a running source stops and queues its 'ended' event.
StopSource(srcs, id) ==
  IF id # 0 /\ srcs[id].state = "running"
  THEN [srcs EXCEPT ![id].state = "stopped", ![id].ended = TRUE]
  ELSE srcs

\* Passing of time: a running source that reaches the end of its buffer
\* ends and queues its 'ended' event.
Advance(srcs, t) ==
  [i \in DOMAIN srcs |->
     IF srcs[i].state = "running" /\ Reached(srcs[i], t) >= Duration(srcs[i].buf)
     THEN [srcs[i] EXCEPT !.state = "ended", !.ended = TRUE]
     ELSE srcs[i]]

\* A source whose 'ended' event has been handled and whose play() closure has
\* no animation frame requested can no longer act: its record is dropped.
Finished == [buf |-> 1, rate |-> DefaultPitch, offset |-> 0, start |-> 0,
             state |-> "done", ended |-> FALSE, wasPlaying |-> FALSE,
             intact |-> FALSE]

Collect(srcs, pend) ==
  [i \in DOMAIN srcs |->
     IF srcs[i].state # "running" /\ ~srcs[i].ended /\ i \notin pend
     THEN Finished ELSE srcs[i]]

----------------------------------------------------------------------------
(* AudioPlayer *)

\* cancelAnimationFrame(animationFrameRef.current), guarded by its truthiness.
CancelFrame == rafPending \ {animationFrameRef}

\* play(), called with the refs as left by the caller.  The closures of
\* onended and updateProgress capture audioBuffer, pitch, offset and isPlaying.
Play(buf, off, srcs) ==
  LET id == Len(srcs) + 1
      over == off >= Duration(buf)
      src == [buf |-> buf, rate |-> pitch, offset |-> off, start |-> now,
              state |-> IF over THEN "ended" ELSE "running",
              ended |-> over,
              wasPlaying |-> isPlaying, intact |-> TRUE]
  IN /\ sources' = Collect(Append(srcs, src), rafPending \cup {id})
     /\ startTimeRef' = now
     /\ sourceRef' = id
     /\ isPlaying' = TRUE
     /\ animationFrameRef' = id
     /\ rafPending' = rafPending \cup {id}
     /\ playResult' = "started"

\* A pause() or a rebind happened during the life of every live source.
Disturb(srcs) ==
  [i \in DOMAIN srcs |-> [srcs[i] EXCEPT !.intact = FALSE]]

\* handleToggle, isPlaying false: play().
TogglePlay ==
  /\ audioBuffer # Null
  /\ ~isPlaying
  /\ Len(sources) < MaxPlays
  /\ Play(audioBuffer, pausedAtRef, sources)
  /\ UNCHANGED <<now, audioBuffer, pitch, progress, pausedAtRef, lastPause>>
  /\ UNCHANGED <<appVars, wavVars, configVars, serviceVars>>

\* play() called while no buffer is bound: if (!audioBuffer || ...) return.
\* Nothing is thrown and nothing is reported; the call leaves no trace but
\* in the history.  The player renders no play button then, so the call is
\* made by no control of the page.
PlayUnbound ==
  /\ audioBuffer = Null
  /\ playResult # "returned"
  /\ playResult' = "returned"
  /\ UNCHANGED <<now, audioBuffer, pitch, isPlaying, progress, sourceRef,
                 startTimeRef, pausedAtRef, animationFrameRef, sources,
                 rafPending, lastPause>>
  /\ UNCHANGED <<appVars, wavVars, configVars, serviceVars>>

PauseOffset == pausedAtRef + (now - startTimeRef) * pitch

\* handleToggle, isPlaying true: pause().
TogglePause ==
  /\ audioBuffer # Null
  /\ isPlaying
  /\ IF sourceRef # 0
     THEN /\ sources' = Collect(Disturb(StopSource(sources, sourceRef)), CancelFrame)
          /\ pausedAtRef' = PauseOffset
          /\ lastPause' = PauseOffset
          /\ isPlaying' = FALSE
          /\ rafPending' = CancelFrame
     ELSE UNCHANGED <<sources, pausedAtRef, lastPause, isPlaying, rafPending>>
  /\ UNCHANGED <<now, audioBuffer, pitch, progress, sourceRef, startTimeRef,
                 animationFrameRef, playResult>>
  /\ UNCHANGED <<appVars, wavVars, configVars, serviceVars>>

\* The natural-end test of source.onended.
EndedNaturally(s) ==
  (now - startTimeRef + Tolerance) * s.rate >= Duration(s.buf) - s.offset

\* source.onended of source id.
OnEnded(id) ==
  /\ id \in DOMAIN sources
  /\ sources[id].ended
  /\ IF EndedNaturally(sources[id])
     THEN /\ isPlaying' = FALSE
          /\ pausedAtRef' = 0
          /\ progress' = <<0, 1>>
          /\ rafPending' = CancelFrame
          /\ lastPause' = IF sources[id].state = "ended" THEN -1 ELSE lastPause
     ELSE UNCHANGED <<isPlaying, pausedAtRef, progress, rafPending, lastPause>>
  /\ sources' = Collect([sources EXCEPT ![id].ended = FALSE], rafPending')
  /\ UNCHANGED <<now, audioBuffer, pitch, sourceRef, startTimeRef,
                 animationFrameRef, playResult>>
  /\ UNCHANGED <<appVars, wavVars, configVars, serviceVars>>

\* updateProgress of the play() call that created source id.
UpdateProgress(id) ==
  /\ id \in rafPending
  /\ LET s == sources[id]
         bufferPosition == s.offset + (now - startTimeRef) * s.rate
         below == bufferPosition < Duration(s.buf)
     IN /\ progress' = <<100 * Min(bufferPosition, Duration(s.buf)), Duration(s.buf)>>
        /\ IF below /\ s.wasPlaying
           THEN /\ animationFrameRef' = id
                /\ UNCHANGED rafPending
           ELSE /\ rafPending' = rafPending \ {id}
                /\ UNCHANGED animationFrameRef
  /\ sources' = Collect(sources, rafPending')
  /\ UNCHANGED <<now, audioBuffer, pitch, isPlaying, sourceRef, startTimeRef,
                 pausedAtRef, lastPause, playResult>>
  /\ UNCHANGED <<appVars, wavVars, configVars, serviceVars>>

\* The audioBuffer prop changes to b: the autoplay effect (autoPlay is true).
Bind(b) ==
  /\ b # audioBuffer
  /\ audioBuffer' = b
  /\ IF b # Null
     THEN /\ Len(sources) < MaxPlays
          /\ pausedAtRef' = 0
          /\ progress' = <<0, 1>>
          /\ lastPause' = -1
          /\ Play(b, 0, Disturb(StopSource(sources, sourceRef)))
     ELSE /\ sources' = Disturb(sources)
          /\ UNCHANGED <<pausedAtRef, progress, lastPause, startTimeRef,
                         sourceRef, isPlaying, animationFrameRef, rafPending,
                         playResult>>
  /\ UNCHANGED <<now, pitch>>
  /\ UNCHANGED <<appVars, wavVars, configVars, serviceVars>>

\* handlePitchChange: the slider of the voice selector.
SetPitch(p) ==
  /\ p # pitch
  /\ pitch' = p
  /\ UNCHANGED <<now, audioBuffer, isPlaying, progress, sourceRef, startTimeRef,
                 pausedAtRef, animationFrameRef, sources, rafPending, lastPause,
                 playResult>>
  /\ UNCHANGED <<appVars, wavVars, configVars, serviceVars>>

\* 100 ms pass.  An 'ended' event is dispatched within the tick in which
\* its source stopped or ran out, so none is pending when time moves on.
Tick ==
  /\ now < MaxTime
  /\ \A i \in DOMAIN sources : ~sources[i].ended
  /\ now' = now + 1
  /\ sources' = Advance(sources, now + 1)
  /\ UNCHANGED <<audioBuffer, pitch, isPlaying, progress, sourceRef, startTimeRef,
                 pausedAtRef, animationFrameRef, rafPending, lastPause, playResult>>
  /\ UNCHANGED <<appVars, wavVars, configVars, serviceVars>>

PlayerNext ==
  \/ TogglePlay
  \/ TogglePause
  \/ \E id \in 1 .. MaxPlays : OnEnded(id)
  \/ \E id \in 1 .. MaxPlays : UpdateProgress(id)
  \/ \E b \in Buffers \cup {Null} : Bind(b)
  \/ Tick

----------------------------------------------------------------------------
(* Text: String.prototype.trim / replace / split on sequences of characters *)

Whitespace == {" ", "\n", "\t"}
\* The grave accent is written out: it cannot stand in a string here.
Markdown == {"*", "_", "~", "grave"}

RECURSIVE TrimLeft(_)
TrimLeft(s) ==
  IF s # <<>> /\ Head(s) \in Whitespace THEN TrimLeft(Tail(s)) ELSE s

RECURSIVE TrimRight(_)
TrimRight(s) ==
  IF s # <<>> /\ s[Len(s)] \in Whitespace
  THEN TrimRight(SubSeq(s, 1, Len(s) - 1)) ELSE s

Trim(s) == TrimRight(TrimLeft(s))

\* The first index >= i at which c occurs in s, or 0.
RECURSIVE IndexFrom(_, _, _)
IndexFrom(s, c, i) ==
  IF i > Len(s) THEN 0 ELSE IF s[i] = c THEN i ELSE IndexFrom(s, c, i + 1)

\* s.replace(/<open>[\s\S]*?<close>/g, ''): leftmost, shortest spans.
RECURSIVE RemoveSpans(_, _, _)
RemoveSpans(s, open, close) ==
  LET i == IndexFrom(s, open, 1)
      j == IndexFrom(s, close, i + 1)
  IN IF i = 0 \/ j = 0 THEN s
     ELSE SubSeq(s, 1, i - 1) \o RemoveSpans(SubSeq(s, j + 1, Len(s)), open, close)

\* s.replace(/[*_~grave]/g, '')
RECURSIVE StripMarkdown(_)
StripMarkdown(s) ==
  IF s = <<>> THEN <<>>
  ELSE IF Head(s) \in Markdown THEN StripMarkdown(Tail(s))
  ELSE <<Head(s)>> \o StripMarkdown(Tail(s))

\* s.replace(/\s+/g, ' ')
RECURSIVE CollapseSpaces(_)
CollapseSpaces(s) ==
  IF s = <<>> THEN <<>>
  ELSE IF Head(s) \in Whitespace THEN <<" ">> \o CollapseSpaces(TrimLeft(s))
  ELSE <<Head(s)>> \o CollapseSpaces(Tail(s))

\* The text sanitising without its trim().
CleanTextUntrimmed(text) ==
  CHOOSE cleanText \in
    { CollapseSpaces(c) : c \in
      { StripMarkdown(b) : b \in
        { RemoveSpans(a, "(", ")") : a \in
          { RemoveSpans(text, "[", "]") } } } } : TRUE

\* generateVoiceover: the text sanitising before the prompts are built.
\* Each replace works on the value the one before it returned.
CleanText(text) ==
  CHOOSE cleanText \in
    { CollapseSpaces(d) : d \in
      { Trim(c) : c \in
        { StripMarkdown(b) : b \in
          { RemoveSpans(a, "(", ")") : a \in
            { RemoveSpans(text, "[", "]") } } } } } : TRUE

RECURSIVE SkipNewlines(_)
SkipNewlines(s) ==
  IF s # <<>> /\ Head(s) = "\n" THEN SkipNewlines(Tail(s)) ELSE s

\* s.split(/\n+/), the piece in progress being cur.
RECURSIVE SplitLines(_, _)
SplitLines(s, cur) ==
  IF s = <<>> THEN <<cur>>
  ELSE IF Head(s) = "\n" THEN <<cur>> \o SplitLines(SkipNewlines(s), <<>>)
  ELSE SplitLines(Tail(s), Append(cur, Head(s)))

NonBlank(line) == Len(Trim(line)) > 0

\* script.split(/\n+/) without the filter.
RawSegmentsUnfiltered(text) == SplitLines(text, <<>>)

\* handleGenerateScenes: script.split(/\n+/).filter(s => s.trim().length > 0)
RawSegments(text) == SelectSeq(SplitLines(text, <<>>), NonBlank)

----------------------------------------------------------------------------
(* PCM: decode (base64 -> bytes) has been applied; decodeAudioData *)

Pow15 == 32768
Pow16 == 65536

\* Int16Array over the bytes: little-endian two's complement words.
Int16At(bytes, k) ==
  LET u == bytes[2 * k - 1] + 256 * bytes[2 * k]
  IN IF u >= Pow15 THEN u - Pow16 ELSE u

\* new Int16Array(data.buffer) throws a RangeError on an odd byte length, and
\* createBuffer throws on a length of zero frames.  frameCount is
\* dataInt16.length / numChannels; createBuffer takes its integer part, and
\* the writes beyond it are dropped.  A sample  value / 32768.0  is kept as
\* its numerator over 65536.
DecodeAudioData(bytes, numChannels) ==
  IF Len(bytes) % 2 # 0 THEN [ok |-> FALSE, error |-> "RangeError"]
  ELSE LET frameCount == (Len(bytes) \div 2) \div numChannels
       IN IF frameCount = 0 THEN [ok |-> FALSE, error |-> "NotSupportedError"]
          ELSE [ok |-> TRUE,
                channels |-> [ch \in 1 .. numChannels |->
                               [i \in 1 .. frameCount |->
                                  Int16At(bytes, (i - 1) * numChannels + ch)
                                    * (Pow16 \div Pow15)]]]

----------------------------------------------------------------------------
(* geminiService.generateVoiceover *)

None == [none |-> TRUE]

\* Nothing thrown (yet): no message.
NotThrown == [attempt |-> 0, message |-> ""]

\* What the remote model can answer to one generateContent request.
\* audio: the inline payload, after base64 decoding.
Responses ==
  { [raises |-> TRUE,  candidates |-> 0, finishReason |-> "STOP",  content |-> FALSE, audio |-> <<>>],
    [raises |-> FALSE, candidates |-> 0, finishReason |-> "STOP",  content |-> FALSE, audio |-> <<>>],
    [raises |-> FALSE, candidates |-> 1, finishReason |-> "OTHER", content |-> FALSE, audio |-> <<>>],
    [raises |-> FALSE, candidates |-> 1, finishReason |-> "STOP",  content |-> TRUE,  audio |-> <<>>],
    [raises |-> FALSE, candidates |-> 1, finishReason |-> "STOP",  content |-> TRUE,  audio |-> <<1, 0, 255>>],
    [raises |-> FALSE, candidates |-> 1, finishReason |-> "OTHER", content |-> TRUE,  audio |-> <<0, 128>>],
    [raises |-> FALSE, candidates |-> 1, finishReason |-> "STOP",  content |-> TRUE,  audio |-> <<1, 0>>] }

SampleRate == 24000
OutputChannels == 1
BackoffMs == 800

\* The try block gets as far as  new AudioContext({ sampleRate: 24000 }):
\* the response has a candidate with an inline audio payload.
HasPayload(r) == ~r.raises /\ r.candidates > 0 /\ r.content /\ r.audio # <<>>

\* The body of the try block for one response: the error thrown, or "ok".
AttemptError(r) ==
  IF r.raises THEN "remote call failed"
  ELSE IF r.candidates = 0 THEN "No candidates returned from API."
  ELSE IF r.finishReason # "STOP" /\ ~r.content THEN "Stopped. Reason"
  ELSE IF ~r.content \/ r.audio = <<>> THEN "No audio data received."
  ELSE IF ~DecodeAudioData(r.audio, OutputChannels).ok
       THEN DecodeAudioData(r.audio, OutputChannels).error
  ELSE "ok"

\* The three prompt variants, in the order they are tried.
PromptsReversed(cleanText) ==
  << [style |-> "raw", text |-> cleanText],
     [style |-> "read aloud", text |-> cleanText],
     [style |-> "accent and tone", text |-> cleanText] >>

Prompts(cleanText) ==
  << [style |-> "accent and tone", text |-> cleanText],
     [style |-> "read aloud", text |-> cleanText],
     [style |-> "raw", text |-> cleanText] >>

\* catch: lastError = error
KeepFirstError(lastError, err) == IF lastError = None THEN err ELSE lastError

CaughtError(lastError, err) == err

\* generateVoiceover without its check for an empty text.
CallUnchecked(seg, cleanText) ==
  LET base == [seg |-> seg, live |-> TRUE, text |-> cleanText, attempt |-> 0,
               requests |-> <<>>, responses |-> <<>>, lastError |-> None,
               result |-> None, waits |-> 0]
  IN IF ~apiKey
     THEN base @@ [pc |-> "rejected",
                   thrown |-> [attempt |-> 0,
                               message |-> "API Key not found in environment variables"]]
     ELSE [base EXCEPT !.attempt = 1, !.requests = <<Prompts(cleanText)[1]>>]
            @@ [pc |-> "request", thrown |-> NotThrown]

\* generateVoiceover up to its first await, the text being sanitised:
\* getClient, the check for an empty text, and the first request.
Call(seg, cleanText) ==
  LET base == [seg |-> seg, live |-> TRUE, text |-> cleanText, attempt |-> 0,
               requests |-> <<>>, responses |-> <<>>, lastError |-> None,
               result |-> None, waits |-> 0]
  IN IF ~apiKey
     THEN base @@ [pc |-> "rejected",
                   thrown |-> [attempt |-> 0,
                               message |-> "API Key not found in environment variables"]]
     ELSE IF Len(cleanText) < 1
     THEN base @@ [pc |-> "rejected",
                   thrown |-> [attempt |-> 0,
                               message |-> "Text segment is empty after cleaning."]]
     ELSE [base EXCEPT !.attempt = 1, !.requests = <<Prompts(cleanText)[1]>>]
            @@ [pc |-> "request", thrown |-> NotThrown]

\* generateVoiceover(text, config) up to its first await.
StartCall(seg, text) ==
  CHOOSE c \in { Call(seg, cleanText) : cleanText \in {CleanText(text)} } : TRUE

\* The request of call c is answered with r.
Answered(c, r, buf) ==
  LET err == AttemptError(r)
      c1 == [c EXCEPT !.responses = Append(@, r)]
  IN IF err = "ok"
     THEN [c1 EXCEPT !.pc = "resolved",
                     !.result = [buf |-> buf, attempt |-> c.attempt, audio |-> r.audio]]
     ELSE [c1 EXCEPT !.pc = "backoff",
                     !.lastError = CaughtError(c.lastError,
                                               [attempt |-> c.attempt, message |-> err])]

\* The catch block without its wait of 800 ms.
RetriedAtOnce(c) ==
  IF c.attempt < Len(Prompts(c.text))
  THEN [c EXCEPT !.pc = "request", !.attempt = @ + 1,
                 !.requests = Append(@, Prompts(c.text)[c.attempt + 1])]
  ELSE [c EXCEPT !.pc = "rejected", !.thrown = c.lastError]

\* The 800 ms timer of call c fires: the next prompt, or throw lastError.
BackedOff(c) ==
  LET c1 == [c EXCEPT !.waits = @ + BackoffMs]
  IN IF c.attempt < Len(Prompts(c.text))
     THEN [c1 EXCEPT !.pc = "request", !.attempt = @ + 1,
                     !.requests = Append(@, Prompts(c.text)[c.attempt + 1])]
     ELSE [c1 EXCEPT !.pc = "rejected", !.thrown = c.lastError]

Respond(k, r) ==
  /\ k \in DOMAIN calls
  /\ calls[k].pc = "request"
  /\ calls' = [calls EXCEPT ![k] = Answered(calls[k], r, nextBuf + 1)]
  /\ nextBuf' = IF AttemptError(r) = "ok" THEN nextBuf + 1 ELSE nextBuf
  /\ audioContexts' = IF HasPayload(r) THEN audioContexts + 1 ELSE audioContexts
  /\ UNCHANGED <<script, apiKey, isGenerating, error, segments, activeVideoUrl,
                 task, runs, audioBuffer>>
  /\ UNCHANGED <<now, pitch, isPlaying, progress, sourceRef, startTimeRef,
                 pausedAtRef, animationFrameRef, sources, rafPending, lastPause,
                 playResult>>
  /\ UNCHANGED <<wavVars, configVars, videoJobs>>

Backoff(k) ==
  /\ k \in DOMAIN calls
  /\ calls[k].pc = "backoff"
  /\ calls' = [calls EXCEPT ![k] = BackedOff(calls[k])]
  /\ UNCHANGED <<script, apiKey, isGenerating, error, segments, activeVideoUrl,
                 task, nextBuf, runs, audioBuffer>>
  /\ UNCHANGED <<now, pitch, isPlaying, progress, sourceRef, startTimeRef,
                 pausedAtRef, animationFrameRef, sources, rafPending, lastPause,
                 playResult>>
  /\ UNCHANGED <<wavVars, configVars, serviceVars>>

----------------------------------------------------------------------------
(* App *)

\* setError(null); an error is otherwise a message that is not empty.
NoError == ""

NoTask == [kind |-> "none", i |-> 0, newSegments |-> <<>>, call |-> 0]

\* await generateVoiceover(...): the handler resumes once the call settled.
NotAwaited(c) == TRUE

CallSettled(c) == c.pc \in {"resolved", "rejected"}

\* The call has been consumed by its handler: only its outcome is kept.
Consumed(c) ==
  [c EXCEPT !.live = FALSE, !.text = <<>>, !.attempt = 0, !.requests = <<>>,
            !.responses = <<>>, !.lastError = None, !.result = None,
            !.waits = 0, !.thrown = NotThrown]

\* setSegments(prev => prev.map(s => s.id === id ? {...s, ...} : s))
SetStatus(segs, id, status) ==
  [i \in DOMAIN segs |->
     IF segs[i].id = id THEN [segs[i] EXCEPT !.status = status] ELSE segs[i]]

SetCompleted(segs, id, buf) ==
  [i \in DOMAIN segs |->
     IF segs[i].id = id
     THEN [segs[i] EXCEPT !.status = "completed", !.audioBuffer = buf]
     ELSE segs[i]]

\* handleGenerateAudio up to its await.
GenerateAudio ==
  /\ ~isGenerating
  /\ runs < MaxRuns
  /\ runs' = runs + 1
  /\ isGenerating' = TRUE
  /\ error' = NoError
  /\ segments' = <<>>
  /\ audioBuffer' = Null
  /\ activeVideoUrl' = Null
  /\ calls' = <<StartCall(0, script)>>
  /\ task' = [kind |-> "single", i |-> 0, newSegments |-> <<>>, call |-> 1]
  /\ UNCHANGED <<script, apiKey, nextBuf>>
  /\ UNCHANGED <<now, pitch, isPlaying, progress, sourceRef, startTimeRef,
                 pausedAtRef, animationFrameRef, sources, rafPending, lastPause,
                 playResult>>
  /\ UNCHANGED <<wavVars, configVars, serviceVars>>

\* handleGenerateAudio after its await: try / catch / finally.
AudioResume ==
  /\ task.kind = "single"
  /\ CallSettled(calls[task.call])
  /\ IF calls[task.call].pc = "resolved"
     THEN /\ audioBuffer' = calls[task.call].result.buf
          /\ UNCHANGED error
     ELSE /\ error' = IF calls[task.call].thrown.message = ""
                       THEN "Failed to generate audio. Please check your API key and try again."
                       ELSE calls[task.call].thrown.message
          /\ UNCHANGED audioBuffer
  /\ isGenerating' = FALSE
  /\ task' = NoTask
  /\ calls' = [calls EXCEPT ![task.call] = Consumed(@)]
  /\ UNCHANGED <<script, apiKey, segments, activeVideoUrl, nextBuf, runs>>
  /\ UNCHANGED <<now, pitch, isPlaying, progress, sourceRef, startTimeRef,
                 pausedAtRef, animationFrameRef, sources, rafPending, lastPause,
                 playResult>>
  /\ UNCHANGED <<wavVars, configVars, serviceVars>>

\* rawSegments.map((text, idx) => ({id: `seg-${Date.now()}-${idx}`, ...}))
NewSegments(raw, run) ==
  [idx \in DOMAIN raw |->
     [id |-> <<run, idx>>, text |-> Trim(raw[idx]), audioBuffer |-> Null,
      videoUrl |-> Null, status |-> "idle", videoStatus |-> "idle"]]

\* handleGenerateScenes up to its first await (or its early return).
GenerateScenes ==
  /\ ~isGenerating
  /\ runs < MaxRuns
  /\ runs' = runs + 1
  /\ audioBuffer' = Null
  /\ activeVideoUrl' = Null
  /\ \E newSegments \in {NewSegments(RawSegments(script), runs + 1)} :
        IF Len(newSegments) = 0
        THEN /\ error' = "Script is empty!"
             /\ isGenerating' = FALSE
             /\ calls' = <<>>
             /\ UNCHANGED <<segments, task>>
        ELSE /\ error' = NoError
             /\ isGenerating' = TRUE
             /\ segments' = SetStatus(newSegments, newSegments[1].id, "generating")
             /\ calls' = <<StartCall(1, newSegments[1].text)>>
             /\ task' = [kind |-> "scenes", i |-> 1, newSegments |-> newSegments,
                         call |-> 1]
  /\ UNCHANGED <<script, apiKey, nextBuf>>
  /\ UNCHANGED <<now, pitch, isPlaying, progress, sourceRef, startTimeRef,
                 pausedAtRef, animationFrameRef, sources, rafPending, lastPause,
                 playResult>>
  /\ UNCHANGED <<wavVars, configVars, serviceVars>>

\* if (i === 0) setAudioBuffer(buffer)
ShowsAudio(i, segs) == i = 1

\* The loop goes on to segment i + 1 whatever the outcome of segment i.
StopsOnError(i, n, ok) == i < n /\ ok

Continues(i, n, ok) == i < n

\* handleGenerateScenes from one await to the next (or to its end).
ScenesResume ==
  /\ task.kind = "scenes"
  /\ CallSettled(calls[task.call])
  /\ LET i == task.i
         segment == task.newSegments[i]
         call == calls[task.call]
         ok == call.pc = "resolved"
         settled == IF ok THEN SetCompleted(segments, segment.id, call.result.buf)
                    ELSE SetStatus(segments, segment.id, "error")
         done == [calls EXCEPT ![task.call] = Consumed(@)]
     IN /\ IF ok /\ ShowsAudio(i, segments)
           THEN audioBuffer' = call.result.buf
           ELSE UNCHANGED audioBuffer
        /\ IF Continues(i, Len(task.newSegments), ok)
           THEN /\ segments' = SetStatus(settled, task.newSegments[i + 1].id, "generating")
                /\ calls' = Append(done, StartCall(i + 1, task.newSegments[i + 1].text))
                /\ task' = [task EXCEPT !.i = i + 1, !.call = Len(calls) + 1]
                /\ UNCHANGED isGenerating
           ELSE /\ segments' = settled
                /\ calls' = done
                /\ task' = NoTask
                /\ isGenerating' = FALSE
  /\ UNCHANGED <<script, apiKey, error, activeVideoUrl, nextBuf, runs>>
  /\ UNCHANGED <<now, pitch, isPlaying, progress, sourceRef, startTimeRef,
                 pausedAtRef, animationFrameRef, sources, rafPending, lastPause,
                 playResult>>
  /\ UNCHANGED <<wavVars, configVars, serviceVars>>

\* handlePlayScene(segment); its button is disabled without an audio buffer.
PlayScene(i) ==
  /\ i \in DOMAIN segments
  /\ segments[i].audioBuffer # Null
  /\ audioBuffer' = segments[i].audioBuffer
  /\ activeVideoUrl' = IF segments[i].videoUrl # Null THEN segments[i].videoUrl
                       ELSE activeVideoUrl
  /\ UNCHANGED <<script, apiKey, isGenerating, error, segments, task, calls,
                 nextBuf, runs>>
  /\ UNCHANGED <<now, pitch, isPlaying, progress, sourceRef, startTimeRef,
                 pausedAtRef, animationFrameRef, sources, rafPending, lastPause,
                 playResult>>
  /\ UNCHANGED <<wavVars, configVars, serviceVars>>

\* Scripts the editor can hold when a generate button is pressed.
Scripts ==
  { <<"H", "i", "\n", "\n", "y", "o", "\n">>,
    <<"[", "x", "]", "\n", " ", "o", "*", "k">>,
    <<"a", "\n", "(", "b", ")", "\n", "c">>,
    <<" ", "\n", " ">> }

AppNext ==
  \/ GenerateAudio
  \/ AudioResume
  \/ GenerateScenes
  \/ ScenesResume
  \/ \E k \in 1 .. MaxCalls, r \in Responses : Respond(k, r)
  \/ \E k \in 1 .. MaxCalls : Backoff(k)
  \/ \E i \in 1 .. MaxCalls : PlayScene(i)

----------------------------------------------------------------------------
(* AudioPlayer.getWavBlob *)

\* if (!audioBuffer) return null: no channels, no bytes.
NoData == <<>>

\* Sample values are kept as numerators over 65536: every value is one a
\* Float32 holds exactly, and the products below are exact in a double.
HeaderBytes == 44

TruncDiv(a, b) == IF a >= 0 THEN a \div b ELSE -((-a) \div b)

\* DataView.setUint16 / setUint32 / setInt16 with littleEndian = true.
Uint16LE(n) == <<n % 256, (n \div 256) % 256>>

Uint32LE(n) == Uint16LE(n % Pow16) \o Uint16LE(n \div Pow16)

Int16LE(n) == Uint16LE((n + Pow16) % Pow16)

\* Math.max(-1, Math.min(1, x))
Clamp(x) == IF x > Pow16 THEN Pow16 ELSE IF x < -Pow16 THEN -Pow16 ELSE x

\* (0.5 + sample < 0 ? sample * 32768 : sample * 32767) | 0
\* With sample = n / 65536:  sample * 32768 = n / 2,  and  | 0  truncates.
ToInt16(sample) ==
  IF Pow15 + sample < 0 THEN TruncDiv(sample, Pow16 \div Pow15)
  ELSE TruncDiv(sample * (Pow15 - 1), Pow16)

\* The interleaved data: frame by frame, channel by channel.
RECURSIVE Interleave(_, _, _)
Interleave(channels, pos, i) ==
  IF pos > Len(channels[1]) THEN <<>>
  ELSE IF i > Len(channels) THEN Interleave(channels, pos + 1, 1)
  ELSE Int16LE(ToInt16(Clamp(channels[i][pos])))
         \o Interleave(channels, pos, i + 1)

WavHeader(numOfChan, length) ==
  Uint32LE(1179011410) \o Uint32LE(length - 8) \o Uint32LE(1163280727)
    \o Uint32LE(544501094) \o Uint32LE(16) \o Uint16LE(1) \o Uint16LE(numOfChan)
    \o Uint32LE(SampleRate) \o Uint32LE(SampleRate * 2 * numOfChan)
    \o Uint16LE(numOfChan * 2) \o Uint16LE(16)
    \o Uint32LE(1635017060) \o Uint32LE(length - 40 - 4)

GetWavBlob(channels) ==
  LET numOfChan == Len(channels)
      length == Len(channels[1]) * numOfChan * 2 + HeaderBytes
  IN WavHeader(numOfChan, length) \o Interleave(channels, 1, 1)

\* handleDownload / handleCopy: const blob = getWavBlob()
Download ==
  /\ bufferData # NoData
  /\ wavBlob = NoData
  /\ wavBlob' = GetWavBlob(bufferData)
  /\ UNCHANGED <<bufferData, waveform>>
  /\ UNCHANGED <<playerVars, appVars, configVars, serviceVars>>

\* Sample values an AudioBuffer can hold: on the 16-bit grid (even) and off.
Samples == {-65536, -32770, -32768, -2, 0, 2, 58983, 65536}

AudioBuffers ==
  UNION { [1 .. c -> [1 .. n -> Samples]] : c \in 1 .. 2, n \in 1 .. MaxFrames }

WavNext == Download

----------------------------------------------------------------------------
(* AudioPlayer: the waveform effect *)

BarWidth == 2
Gap == 1

\* Nothing drawn yet.
NoWaveform == [width |-> 0, bars |-> <<>>]

Max(a, b) == IF a > b THEN a ELSE b
Abs(a) == IF a < 0 THEN -a ELSE a

\* Math.ceil(data.length / width)
WindowStep(data, width) == (Len(data) + width - 1) \div width

\* The body of the outer loop for the bar at pixel i: min and max over
\* data[i * step + j], j < step, starting from 1.0 and -1.0; a read past the
\* end of data is undefined and changes neither. Indices here start at 1.
BarValue(data, step, i) ==
  LET read == {data[k] : k \in {i * step + j + 1 : j \in 0 .. (step - 1)}
                              \cap DOMAIN data}
      min == CHOOSE m \in read \cup {Pow16} :
               \A d \in read \cup {Pow16} : m <= d
      max == CHOOSE m \in read \cup {-Pow16} :
               \A d \in read \cup {-Pow16} : d <= m
  IN Max(Abs(min), Abs(max))

\* for (let i = 0; i < width; i += (barWidth + gap)): the magnitudes val of
\* the bars from pixel i on.
RECURSIVE Bars(_, _, _, _)
Bars(data, width, step, i) ==
  IF i < width
  THEN <<BarValue(data, step, i)>> \o Bars(data, width, step, i + BarWidth + Gap)
  ELSE <<>>

\* The effect on [audioBuffer], the canvas being width pixels wide.
DrawWaveform(width) ==
  /\ bufferData # NoData
  /\ waveform = NoWaveform
  /\ waveform' = [width |-> width,
                  bars |-> Bars(bufferData[1], width,
                                WindowStep(bufferData[1], width), 0)]
  /\ UNCHANGED <<bufferData, wavBlob>>
  /\ UNCHANGED <<playerVars, appVars, configVars, serviceVars>>

\* Samples at full scale, silent and at half scale.
WaveSamples == {-Pow16, 0, Pow15}

WaveBuffers ==
  UNION { [1 .. 1 -> [1 .. n -> WaveSamples]] : n \in 1 .. MaxWaveFrames }

WaveNext == \E width \in 1 .. MaxWidth : DrawWaveform(width)

----------------------------------------------------------------------------
(* VoiceSelector: the configuration handlers, and the App handlers they call *)

\* The player and the clock, which the configuration handlers leave alone.
playbackVars == <<now, audioBuffer, isPlaying, progress, sourceRef,
                  startTimeRef, pausedAtRef, animationFrameRef, sources,
                  rafPending, lastPause, playResult>>

Genders == {"Girl", "Boy"}
Accents == {"American English", "Indian English"}
\* Two of the five tones.
Tones == {"Friendly", "Calm"}

\* useState<VoiceConfig>({...}); id 0 is undefined.
DefaultConfig ==
  [id |-> 0, gender |-> "Girl", age |-> DefaultAge, accent |-> "Indian English",
   tone |-> "Friendly"]

\* The positions of the two range inputs that are tried.
SliderAges == {MinAge, MaxAge}
SliderPitches == {MinPitch, MaxPitch}

\* What analyzeVoiceStyle can return: JSON.parse of the model's answer, taken
\* as it is, or the defaults of its catch block.
AnalysisResults ==
  { [gender |-> "Girl", age |-> DefaultAge, pitch |-> DefaultPitch, tone |-> "Friendly"],
    [gender |-> "Boy", age |-> MaxAge, pitch |-> MinPitch, tone |-> "Calm"],
    [gender |-> "Boy", age |-> 12, pitch |-> 20, tone |-> "Calm"] }

\* handleGenderSelect
GenderSelect(g) ==
  /\ config' = [config EXCEPT !.gender = g]
  /\ pitch' = DefaultPitch
  /\ UNCHANGED <<customVoices, savedVoices, analysis>>
  /\ UNCHANGED <<playbackVars, appVars, wavVars, serviceVars>>

\* handleAccentSelect
AccentSelect(a) ==
  /\ config' = [config EXCEPT !.accent = a]
  /\ UNCHANGED <<pitch, customVoices, savedVoices, analysis>>
  /\ UNCHANGED <<playbackVars, appVars, wavVars, serviceVars>>

\* handleAgeChange
AgeChange(a) ==
  /\ config' = [config EXCEPT !.age = a]
  /\ UNCHANGED <<pitch, customVoices, savedVoices, analysis>>
  /\ UNCHANGED <<playbackVars, appVars, wavVars, serviceVars>>

\* handleToneSelect
ToneSelect(tn) ==
  /\ config' = [config EXCEPT !.tone = tn]
  /\ UNCHANGED <<pitch, customVoices, savedVoices, analysis>>
  /\ UNCHANGED <<playbackVars, appVars, wavVars, serviceVars>>

\* handleCustomVoiceSelect: onChange({ ...voice.config, id: voice.id })
CustomVoiceSelect(i) ==
  /\ i \in DOMAIN customVoices
  /\ config' = [customVoices[i].config EXCEPT !.id = customVoices[i].id]
  /\ pitch' = customVoices[i].pitch
  /\ UNCHANGED <<customVoices, savedVoices, analysis>>
  /\ UNCHANGED <<playbackVars, appVars, wavVars, serviceVars>>

\* VoiceSelector.handleSaveVoice (the name is not blank), App.handleSaveVoice
SaveVoice ==
  /\ savedVoices < MaxVoices
  /\ savedVoices' = savedVoices + 1
  /\ customVoices' = Append(customVoices,
                            [id |-> savedVoices + 1,
                             config |-> [config EXCEPT !.id = 0],
                             pitch |-> pitch])
  /\ UNCHANGED <<config, pitch, analysis>>
  /\ UNCHANGED <<playbackVars, appVars, wavVars, serviceVars>>

KeepsVoice(v, id) == v.id # id

\* App.handleDeleteVoice
DeleteVoice(i) ==
  /\ i \in DOMAIN customVoices
  /\ customVoices' = SelectSeq(customVoices,
                               LAMBDA v : KeepsVoice(v, customVoices[i].id))
  /\ config' = IF config.id = customVoices[i].id
               THEN [config EXCEPT !.id = 0] ELSE config
  /\ UNCHANGED <<pitch, savedVoices, analysis>>
  /\ UNCHANGED <<playbackVars, appVars, wavVars, serviceVars>>

\* processAudioForClone up to its await: the closure holds the config of the
\* render in which the recording stopped or the file was chosen. Of that
\* config the id and the accent are kept, the result overwrites the rest.
StartAnalysis ==
  /\ analysis = <<>>
  /\ analysis' = <<[id |-> config.id, accent |-> config.accent]>>
  /\ UNCHANGED <<config, pitch, customVoices, savedVoices>>
  /\ UNCHANGED <<playbackVars, appVars, wavVars, serviceVars>>

\* processAudioForClone after its await:
\* onChange({ ...config, gender, age, pitch, tone }) with the result r.
FinishAnalysis(r) ==
  /\ analysis # <<>>
  /\ config' = [id |-> analysis[1].id, gender |-> r.gender, age |-> r.age,
                accent |-> analysis[1].accent, tone |-> r.tone]
  /\ pitch' = r.pitch
  /\ analysis' = <<>>
  /\ UNCHANGED <<customVoices, savedVoices>>
  /\ UNCHANGED <<playbackVars, appVars, wavVars, serviceVars>>

ConfigNext ==
  \/ \E g \in Genders : GenderSelect(g)
  \/ \E a \in Accents : AccentSelect(a)
  \/ \E a \in SliderAges : AgeChange(a)
  \/ \E p \in SliderPitches : SetPitch(p)
  \/ \E tn \in Tones : ToneSelect(tn)
  \/ \E i \in 1 .. MaxVoices : CustomVoiceSelect(i)
  \/ SaveVoice
  \/ \E i \in 1 .. MaxVoices : DeleteVoice(i)
  \/ StartAnalysis
  \/ \E r \in AnalysisResults : FinishAnalysis(r)

----------------------------------------------------------------------------
(* Specifications *)

\* The state after the first render: nothing generated, nothing bound,
\* nothing played.  The script in the editor, the presence of the API key in
\* the environment and the buffer a download is asked for are the inputs.
Init(scripts, keys, buffers) ==
  /\ now = 0
  /\ audioBuffer = Null
  /\ pitch = DefaultPitch
  /\ isPlaying = FALSE
  /\ progress = <<0, 1>>
  /\ sourceRef = 0
  /\ startTimeRef = 0
  /\ pausedAtRef = 0
  /\ animationFrameRef = 0
  /\ sources = <<>>
  /\ rafPending = {}
  /\ lastPause = -1
  /\ playResult = "none"
  /\ script \in scripts
  /\ apiKey \in keys
  /\ isGenerating = FALSE
  /\ error = NoError
  /\ segments = <<>>
  /\ activeVideoUrl = Null
  /\ task = NoTask
  /\ calls = <<>>
  /\ nextBuf = 0
  /\ runs = 0
  /\ bufferData \in buffers
  /\ wavBlob = NoData
  /\ waveform = NoWaveform
  /\ config = DefaultConfig
  /\ customVoices = <<>>
  /\ savedVoices = 0
  /\ analysis = <<>>
  /\ videoJobs = <<>>
  /\ audioContexts = 1       \* the AudioPlayer is mounted: its context exists

\* A script of one line, as the player and the encoder see the App.
OneLine == <<"H", "i">>

\* Playback at a constant rate: the pitch slider is left alone.
PlayerSpec == Init({OneLine}, {TRUE}, {NoData}) /\ [][PlayerNext]_vars

\* Playback while the pitch slider is moved.
PitchNext ==
  \/ PlayerNext /\ Len(sources') <= MaxPitchPlays
  \/ \E p \in Pitches : SetPitch(p)

PitchSpec == Init({OneLine}, {TRUE}, {NoData}) /\ [][PitchNext]_vars

\* Playback, and play() called as well while no buffer is bound.
UnboundNext ==
  \/ PlayerNext /\ Len(sources') <= MaxPitchPlays
  \/ PlayUnbound

UnboundSpec == Init({OneLine}, {TRUE}, {NoData}) /\ [][UnboundNext]_vars

\* Speech synthesis, single and per scene, with the player left alone.
AppSpec == Init(Scripts, BOOLEAN, {NoData}) /\ [][AppNext]_vars

\* What goes on without the user: a remote call is answered, a backoff timer
\* fires, a handler suspended at its await is resumed.
Progress ==
  \/ \E k \in 1 .. MaxCalls, r \in Responses : Respond(k, r)
  \/ \E k \in 1 .. MaxCalls : Backoff(k)
  \/ ScenesResume
  \/ AudioResume

\* The same, every remote call being answered, every timer firing and every
\* suspended handler being resumed.
AppFairSpec == AppSpec /\ WF_vars(Progress)

\* The waveform effect on one buffer and one canvas width.
WaveSpec == Init({OneLine}, {TRUE}, WaveBuffers) /\ [][WaveNext]_vars

\* All strings of at most n characters from chars.
Strings(chars, n) == UNION { [1 .. m -> chars] : m \in 0 .. n }

TextChars == {"[", "]", "(", ")", "*", " ", "a"}

\* A remote call that fails and one that returns audio.
SomeResponses == { r \in Responses : r.raises \/ r.audio = <<1, 0>> }

\* handleGenerateAudio and its synthesis call, for every short text.
CleanNext ==
  \/ GenerateAudio /\ runs = 0
  \/ AudioResume
  \/ \E r \in SomeResponses : Respond(1, r)
  \/ Backoff(1)

CleanSpec ==
  Init(Strings(TextChars, MaxTextLen), {TRUE}, {NoData}) /\ [][CleanNext]_vars

ScriptChars == {"\n", " ", "a", "b"}

\* handleGenerateScenes and its synthesis calls, for every short script.
SegmentNext ==
  \/ GenerateScenes
  \/ ScenesResume
  \/ \E k \in 1 .. MaxCalls, r \in SomeResponses : Respond(k, r)
  \/ \E k \in 1 .. MaxCalls : Backoff(k)

SegmentSpec ==
  Init(Strings(ScriptChars, MaxScriptLen), {TRUE}, {NoData}) /\ [][SegmentNext]_vars

\* ---- geminiService.generateVideoSegment and App.handleGenerateVideoForSegment

\* What the video service can answer to generateVideos and to
\* getVideosOperation: the call raises, the operation is not done, it is done
\* with a video URI, it is done without one.
VideoAnswers == {"raises", "pending", "done", "no uri"}

\* generateVideoSegment(text) up to its first await, for the segment with
\* the given id.  A job's object URL, once created, is its number.
StartVideo(id) ==
  IF ~apiKey
  THEN [seg |-> id, pc |-> "rejected", url |-> Null,
        message |-> "API Key not found in environment variables"]
  ELSE [seg |-> id, pc |-> "starting", url |-> Null, message |-> ""]

\* The operation returned by generateVideos or getVideosOperation:
\* while (!operation.done) wait 5 s and ask again; then the download link.
VideoAnswered(job, r) ==
  IF r = "raises" THEN [job EXCEPT !.pc = "rejected", !.message = "remote call failed"]
  ELSE IF r = "pending" THEN [job EXCEPT !.pc = "waiting"]
  ELSE IF r = "no uri"
       THEN [job EXCEPT !.pc = "rejected",
                        !.message = "Video generation completed but no URI returned."]
  ELSE [job EXCEPT !.pc = "fetching"]

\* setSegments(prev => prev.map(s => s.id === segmentId ? {...s, videoStatus} : s))
SetVideoStatus(segs, id, status) ==
  [i \in DOMAIN segs |->
     IF segs[i].id = id THEN [segs[i] EXCEPT !.videoStatus = status] ELSE segs[i]]

\* The update of a finished video that does not spread the segment it
\* replaces: the synthesis status falls back to 'idle'.
SetVideoCompletedOnly(segs, id, url) ==
  [i \in DOMAIN segs |->
     IF segs[i].id = id
     THEN [segs[i] EXCEPT !.videoUrl = url, !.videoStatus = "completed",
                          !.status = "idle"]
     ELSE segs[i]]

\* setSegments(prev => prev.map(s => s.id === segmentId
\*                                  ? {...s, videoUrl, videoStatus: 'completed'} : s))
SetVideoCompleted(segs, id, url) ==
  [i \in DOMAIN segs |->
     IF segs[i].id = id
     THEN [segs[i] EXCEPT !.videoUrl = url, !.videoStatus = "completed"]
     ELSE segs[i]]

\* handleGenerateVideoForSegment(seg.id, seg.text) up to its await, the paid
\* key being selected; its button is disabled while the segment's video is
\* generating.
GenerateVideo(i) ==
  /\ i \in DOMAIN segments
  /\ segments[i].videoStatus # "generating"
  /\ Len(videoJobs) < MaxJobs
  /\ segments' = SetVideoStatus(segments, segments[i].id, "generating")
  /\ videoJobs' = Append(videoJobs, StartVideo(segments[i].id))
  /\ UNCHANGED <<script, apiKey, isGenerating, error, activeVideoUrl, task, calls,
                 nextBuf, runs, audioBuffer, audioContexts>>
  /\ UNCHANGED <<now, pitch, isPlaying, progress, sourceRef, startTimeRef,
                 pausedAtRef, animationFrameRef, sources, rafPending, lastPause,
                 playResult>>
  /\ UNCHANGED <<wavVars, configVars>>

\* generateVideos, or a getVideosOperation, of job j is answered with r.
VideoAnswer(j, r) ==
  /\ j \in DOMAIN videoJobs
  /\ videoJobs[j].pc \in {"starting", "polling"}
  /\ videoJobs' = [videoJobs EXCEPT ![j] = VideoAnswered(@, r)]
  /\ UNCHANGED <<playerVars, appVars, wavVars, configVars, audioContexts>>

\* The 5 s timer of job j fires: getVideosOperation is called.
VideoTimer(j) ==
  /\ j \in DOMAIN videoJobs
  /\ videoJobs[j].pc = "waiting"
  /\ videoJobs' = [videoJobs EXCEPT ![j].pc = "polling"]
  /\ UNCHANGED <<playerVars, appVars, wavVars, configVars, audioContexts>>

\* The download of job j ends: URL.createObjectURL(blob), or fetch raises.
VideoFetched(j, ok) ==
  /\ j \in DOMAIN videoJobs
  /\ videoJobs[j].pc = "fetching"
  /\ videoJobs' = [videoJobs EXCEPT ![j] =
                     IF ok THEN [@ EXCEPT !.pc = "resolved", !.url = j]
                     ELSE [@ EXCEPT !.pc = "rejected", !.message = "Failed to fetch"]]
  /\ UNCHANGED <<playerVars, appVars, wavVars, configVars, audioContexts>>

\* handleGenerateVideoForSegment after its await: try / catch.
VideoResume(j) ==
  /\ j \in DOMAIN videoJobs
  /\ videoJobs[j].pc \in {"resolved", "rejected"}
  /\ IF videoJobs[j].pc = "resolved"
     THEN /\ segments' = SetVideoCompleted(segments, videoJobs[j].seg, videoJobs[j].url)
          /\ activeVideoUrl' = videoJobs[j].url
          /\ UNCHANGED error
     ELSE /\ error' = videoJobs[j].message
          /\ segments' = SetVideoStatus(segments, videoJobs[j].seg, "error")
          /\ UNCHANGED activeVideoUrl
  /\ videoJobs' = [videoJobs EXCEPT ![j] = [@ EXCEPT !.pc = "done", !.url = Null,
                                                     !.message = ""]]
  /\ UNCHANGED <<script, apiKey, isGenerating, task, calls, nextBuf, runs,
                 audioBuffer, audioContexts>>
  /\ UNCHANGED <<now, pitch, isPlaying, progress, sourceRef, startTimeRef,
                 pausedAtRef, animationFrameRef, sources, rafPending, lastPause,
                 playResult>>
  /\ UNCHANGED <<wavVars, configVars>>

\* A script of two scenes.
TwoLines == <<"a", "\n", "b">>

\* A batch generation and after it a single generation, with the video
\* handler side by side.
VideoNext ==
  \/ GenerateScenes /\ runs = 0
  \/ GenerateAudio /\ runs = 1
  \/ AudioResume
  \/ ScenesResume
  \/ \E k \in 1 .. MaxCalls, r \in SomeResponses : Respond(k, r)
  \/ \E k \in 1 .. MaxCalls : Backoff(k)
  \/ \E i \in 1 .. MaxCalls : PlayScene(i)
  \/ \E i \in 1 .. MaxCalls : GenerateVideo(i)
  \/ \E j \in 1 .. MaxJobs, r \in VideoAnswers : VideoAnswer(j, r)
  \/ \E j \in 1 .. MaxJobs : VideoTimer(j)
  \/ \E j \in 1 .. MaxJobs, ok \in BOOLEAN : VideoFetched(j, ok)
  \/ \E j \in 1 .. MaxJobs : VideoResume(j)

VideoSpec == Init({TwoLines}, {TRUE}, {NoData}) /\ [][VideoNext]_vars

\* What goes on without the user in a video generation: an answer of the
\* service arrives, the 5 s timer fires, the download ends, the handler is
\* resumed.
VideoProgress ==
  \/ \E j \in 1 .. MaxJobs, r \in VideoAnswers : VideoAnswer(j, r)
  \/ \E j \in 1 .. MaxJobs : VideoTimer(j)
  \/ \E j \in 1 .. MaxJobs, ok \in BOOLEAN : VideoFetched(j, ok)
  \/ \E j \in 1 .. MaxJobs : VideoResume(j)

\* The same, every call being answered and every timer firing.
VideoFairSpec == VideoSpec /\ WF_vars(Progress) /\ WF_vars(VideoProgress)

\* The voice configuration, with nothing generated and nothing played.
ConfigSpec == Init({OneLine}, {TRUE}, {NoData}) /\ [][ConfigNext]_vars

\* The WAV encoder applied to one buffer.
WavSpec == Init({OneLine}, {TRUE}, AudioBuffers) /\ [][WavNext]_vars

----------------------------------------------------------------------------
(* Steps of the player, recognised from a pair of states *)

SourceIds == 1 .. MaxPlays

\* pause() stops the running source the player holds.
PauseStep ==
  /\ sourceRef # 0
  /\ audioBuffer' = audioBuffer
  /\ sources[sourceRef].state = "running"
  /\ sources'[sourceRef].state = "stopped"

\* play() called by handleToggle: a source is created for the same buffer.
ResumeStep ==
  /\ audioBuffer' = audioBuffer
  /\ Len(sources') = Len(sources) + 1

\* The 'ended' event of source id is handled.
EndedStep(id) ==
  /\ id \in DOMAIN sources
  /\ sources[id].ended
  /\ ~sources'[id].ended

----------------------------------------------------------------------------
(* C1 *)

\* C1: for one bound buffer played at a constant rate, the logical offset
\* after each pause() is the offset before the matching play() plus
\* (pause time - play anchor time) * rate, and the next play() starts the
\* playback at exactly the offset that pause() stored, as long as no natural
\* completion came in between.
C1_PauseResumeOffset ==
  [][ /\ (PauseStep /\ sources[sourceRef].rate = pitch) =>
           pausedAtRef' = sources[sourceRef].offset
                          + (now - sources[sourceRef].start) * sources[sourceRef].rate
      /\ (ResumeStep /\ lastPause # -1) =>
           sources'[Len(sources')].offset = lastPause ]_vars

\* The arithmetic half of C1 alone.
C1_PauseOffset ==
  [][ (PauseStep /\ sources[sourceRef].rate = pitch) =>
           pausedAtRef' = sources[sourceRef].offset
                          + (now - sources[sourceRef].start) * sources[sourceRef].rate ]_vars

----------------------------------------------------------------------------
(* C2 *)

\* C2: when a playback runs to the end of its buffer with neither pause()
\* nor a rebind since its play(), handling its end-of-playback notification
\* leaves the engine stopped, the logical offset 0 and the progress 0.
C2_NaturalEndResets ==
  [][ \A id \in SourceIds :
        (EndedStep(id) /\ sources[id].state = "ended" /\ sources[id].intact) =>
          (~isPlaying' /\ pausedAtRef' = 0 /\ progress'[1] = 0) ]_vars

----------------------------------------------------------------------------
(* C3 *)

\* C3: after pause() issued before the end of the buffer was reached, the
\* end-of-playback notification caused by that stop does not reset the
\* logical offset: the engine stays paused with the offset pause() computed.
C3_PauseStopKeepsOffset ==
  [][ \A id \in SourceIds :
        (EndedStep(id) /\ sources[id].state = "stopped" /\ id = sourceRef
           /\ ~isPlaying /\ pausedAtRef = lastPause) =>
          (pausedAtRef' = lastPause /\ ~isPlaying') ]_vars

----------------------------------------------------------------------------
(* C10 *)

\* The source the player holds is running and has not reached the end.
PlayingBeforeEnd ==
  /\ isPlaying
  /\ sourceRef # 0
  /\ sources[sourceRef].state = "running"
  /\ Reached(sources[sourceRef], now) < Duration(sources[sourceRef].buf)

\* C10: while the engine is playing and the position is before the end of
\* the buffer, progress reporting keeps running: a progress tick of the
\* current play() is requested for the next rendering frame.
C10_ProgressKeepsRunning ==
  PlayingBeforeEnd => sourceRef \in rafPending

----------------------------------------------------------------------------
(* C4 *)

PromptOrder == <<"accent and tone", "read aloud", "raw">>

Failed(r) == AttemptError(r) # "ok"

\* C4: a synthesis call sends its requests in the order styled prompt,
\* read-aloud prompt, raw cleaned text; a request is sent only after every
\* earlier one was answered with a failure, none is sent after a success,
\* there are never more than three, and a resolved call carries the audio of
\* its first (and only) successful attempt.
C4_PromptOrder ==
  \A k \in DOMAIN calls :
    calls[k].live =>
      LET c == calls[k]
          n == Len(c.requests)
          m == Len(c.responses)
      IN /\ n <= 3
         /\ m <= n
         /\ \A j \in 1 .. n :
              c.requests[j] = [style |-> PromptOrder[j], text |-> c.text]
         /\ \A j \in 1 .. (n - 1) : j <= m /\ Failed(c.responses[j])
         /\ \A j \in 1 .. m :
              ~Failed(c.responses[j]) =>
                /\ j = n
                /\ c.pc = "resolved"
                /\ c.result.attempt = j
                /\ c.result.audio = c.responses[j].audio
         /\ c.pc = "resolved" => (m = n /\ n >= 1 /\ ~Failed(c.responses[n]))

\* A call resolved by its third request, after two failures.
C4_Witness ==
  \E k \in DOMAIN calls :
    /\ calls[k].live
    /\ calls[k].pc = "resolved"
    /\ Len(calls[k].requests) = 3
    /\ calls[k].result.attempt = 3

----------------------------------------------------------------------------
(* C5 *)

\* C5: a call whose three attempts all failed never resolves, and when it
\* rejects it throws the error of the third attempt.
C5_ExhaustionRejects ==
  \A k \in DOMAIN calls :
    LET c == calls[k]
    IN (c.live /\ Len(c.responses) = 3 /\ \A j \in 1 .. 3 : Failed(c.responses[j]))
         => /\ c.pc \in {"backoff", "rejected"}
            /\ c.result = None
            /\ c.pc = "rejected" =>
                 c.thrown = [attempt |-> 3, message |-> AttemptError(c.responses[3])]

\* A call rejected after three failures of which the first and the last differ.
C5_Witness ==
  \E k \in DOMAIN calls :
    /\ calls[k].live
    /\ calls[k].pc = "rejected"
    /\ Len(calls[k].responses) = 3
    /\ AttemptError(calls[k].responses[1]) # AttemptError(calls[k].responses[3])
    /\ AttemptError(calls[k].responses[2]) # AttemptError(calls[k].responses[3])

----------------------------------------------------------------------------
(* C6 *)

Generating == {i \in DOMAIN segments : segments[i].status = "generating"}

\* C6: at most one segment is 'generating', and every synthesis call but the
\* latest has resolved or rejected.
C6_OneAtATime ==
  /\ Cardinality(Generating) <= 1
  /\ \A k \in DOMAIN calls :
       k < Len(calls) => calls[k].pc \in {"resolved", "rejected"}

\* The call of the second segment is waiting to retry; the first is settled.
C6_Witness ==
  /\ task.kind = "scenes"
  /\ Len(calls) = 2
  /\ calls[2].pc = "backoff"
  /\ Generating = {2}

----------------------------------------------------------------------------
(* C7 *)

BatchRunning == task.kind = "scenes"

BatchDone == task.kind = "none" /\ segments # <<>>

Settled == {"completed", "error"}

\* Call k is the call of segment k, one call for each segment started.
C7_OncePerSegment ==
  /\ BatchRunning =>
       /\ Len(calls) = task.i
       /\ \A k \in DOMAIN calls : calls[k].seg = k
  /\ BatchDone =>
       /\ Len(calls) = Len(segments)
       /\ \A k \in DOMAIN calls : calls[k].seg = k
       /\ \A i \in DOMAIN segments : segments[i].status \in Settled
       /\ ~isGenerating

\* A segment that stays in the list changes its status only from idle to
\* generating and from generating to completed or error; a new list is idle
\* but for its first segment, which the same handler run sets to generating.
C7_StatusStep ==
  \A i \in DOMAIN segments' :
    IF i \in DOMAIN segments /\ segments[i].id = segments'[i].id
    THEN \/ segments'[i].status = segments[i].status
         \/ segments[i].status = "idle" /\ segments'[i].status = "generating"
         \/ segments[i].status = "generating" /\ segments'[i].status \in Settled
    ELSE segments'[i].status = IF i = 1 THEN "generating" ELSE "idle"

\* C7: in a batch run synthesis is called once for every segment, in list
\* order, whether or not earlier segments failed; a status moves only
\* idle -> generating -> completed or error; and, every remote call being
\* answered, the run ends with every segment completed or error and the
\* generating flag cleared.
C7_BatchRun ==
  /\ []C7_OncePerSegment
  /\ [][C7_StatusStep]_vars
  /\ (BatchRunning ~> BatchDone)

\* A finished run of three segments whose first failed and whose last
\* completed.
C7_Witness ==
  /\ BatchDone
  /\ Len(segments) = 3
  /\ segments[1].status = "error"
  /\ segments[3].status = "completed"

----------------------------------------------------------------------------
(* C8 *)

\* C8: when the lowest-index successful segment of a batch run completes,
\* its audio becomes the displayed audio, also when segment 0 has failed.
C8_FirstSuccessShown ==
  [][ \A i \in 1 .. MaxCalls :
        ( /\ BatchRunning
          /\ i \in DOMAIN segments
          /\ i \in DOMAIN segments'
          /\ segments[i].status = "generating"
          /\ segments'[i].status = "completed"
          /\ \A j \in 1 .. (i - 1) : segments'[j].status # "completed" )
        => audioBuffer' = segments'[i].audioBuffer ]_vars

----------------------------------------------------------------------------
(* C9 *)

DataRegion(blob) == SubSeq(blob, HeaderBytes + 1, Len(blob))


\* 1/32768, in the unit of the sample values.
Quantum == Pow16 \div Pow15

RoundTrip(channels, blob) ==
  LET d == DecodeAudioData(DataRegion(blob), Len(channels))
  IN /\ d.ok
     /\ Len(d.channels) = Len(channels)
     /\ \A c \in DOMAIN channels :
          /\ Len(d.channels[c]) = Len(channels[c])
          /\ \A i \in DOMAIN channels[c] :
               Abs(d.channels[c][i] - channels[c][i]) <= Quantum

OnGrid(channels) ==
  \A c \in DOMAIN channels : \A i \in DOMAIN channels[c] :
    channels[c][i] % Quantum = 0 /\ channels[c][i] < Pow16

\* The round trip of a buffer that the PCM decoder produced.
C9_RoundTripOfDecoded ==
  (wavBlob # NoData /\ OnGrid(bufferData)) => RoundTrip(bufferData, wavBlob)

----------------------------------------------------------------------------
(* C11 *)

\* The sources that are started and neither stopped nor ended.
Running(srcs) == {i \in DOMAIN srcs : srcs[i].state = "running"}

\* The audioBuffer prop changes.
RebindStep == audioBuffer' # audioBuffer

\* C11: when a new buffer is bound while the player is playing, every source
\* that was running is stopped in the step that starts the source of the new
\* buffer, so that only the new one is running afterwards.
C11_OldStoppedBeforeNew ==
  [][ (RebindStep /\ audioBuffer' # Null /\ isPlaying)
        => /\ \A i \in Running(sources) : sources'[i].state # "running"
           /\ Cardinality(Running(sources')) <= 1 ]_vars

----------------------------------------------------------------------------
(* C12 *)

\* C12: whenever the bound buffer changes, to another buffer or to none, the
\* sources that were running are stopped and the logical offset is 0.
C12_RebindStopsAndResets ==
  [][ RebindStep
        => /\ \A i \in Running(sources) : sources'[i].state # "running"
           /\ pausedAtRef' = 0 ]_vars

----------------------------------------------------------------------------
(* C19 *)

\* C19: at most one source is running in every reachable state, and the
\* 'ended' event of a stopped source never clears the playing flag while the
\* source the player holds is still running.
C19_OneSourceRunning ==
  /\ [](Cardinality(Running(sources)) <= 1)
  /\ [][ \A id \in SourceIds :
           ( /\ EndedStep(id)
             /\ sources[id].state = "stopped"
             /\ isPlaying
             /\ sourceRef # id
             /\ sourceRef \in Running(sources) )
           => isPlaying' ]_vars

----------------------------------------------------------------------------
(* C20 *)

\* C20: the offset that pause() stores is the offset of the playback plus
\* the elapsed time multiplied by the rate its source was started with,
\* whatever the pitch setting has become since.
C20_PauseUsesStartRate ==
  [][ PauseStep
        => pausedAtRef' = pausedAtRef
                            + (now - startTimeRef) * sources[sourceRef].rate ]_vars

----------------------------------------------------------------------------
(* C13 *)

\* play() is called while no buffer is bound.
UnboundPlayStep ==
  /\ audioBuffer = Null
  /\ audioBuffer' = Null
  /\ playResult' # playResult

\* C13: play() called while no buffer is bound fails with a
\* NoBufferBoundError reported to its caller, and leaves the playing flag,
\* the logical offset and the anchor as they were.
C13_PlayWithoutBuffer ==
  [][ UnboundPlayStep
        => /\ playResult' = "NoBufferBoundError"
           /\ isPlaying' = isPlaying
           /\ pausedAtRef' = pausedAtRef
           /\ startTimeRef' = startTimeRef ]_vars

\* The second half alone: the call changes nothing of the playback state.
C13_StateUnchanged ==
  [][ UnboundPlayStep
        => /\ isPlaying' = isPlaying
           /\ pausedAtRef' = pausedAtRef
           /\ startTimeRef' = startTimeRef
           /\ sources' = sources ]_vars

----------------------------------------------------------------------------
(* C18 *)

\* C18: whatever configuration handlers have run, the pitch of the current
\* configuration lies in [0.8, 1.5] and its age in [7, 10].
C18_ConfigInRange ==
  /\ MinPitch <= pitch /\ pitch <= MaxPitch
  /\ MinAge <= config.age /\ config.age <= MaxAge

----------------------------------------------------------------------------
(* C14 *)

EmptyAfterCleaning(c) == c.live /\ Len(c.text) = 0

NothingSent(c) ==
  /\ c.pc = "rejected"
  /\ c.requests = <<>>
  /\ c.responses = <<>>
  /\ c.waits = 0
  /\ c.attempt = 0

\* C14 as stated: a synthesis call whose text is empty after cleaning is
\* rejected with the empty-input error, and has sent no request, waited for
\* no backoff and tried no fallback prompt.
C14_EmptyInputError ==
  \A k \in DOMAIN calls :
    EmptyAfterCleaning(calls[k]) =>
      /\ NothingSent(calls[k])
      /\ calls[k].thrown.message = "Text segment is empty after cleaning."

\* C14: a synthesis call whose text is empty after cleaning has sent no
\* request, waited for no backoff and tried no fallback prompt; it is rejected
\* with the empty-input error when the API key is set, and with the
\* missing-key error of getClient, which comes first, when it is not.
C14_EmptyTextRejected ==
  \A k \in DOMAIN calls :
    EmptyAfterCleaning(calls[k]) =>
      /\ NothingSent(calls[k])
      /\ calls[k].thrown.message =
           IF apiKey THEN "Text segment is empty after cleaning."
                     ELSE "API Key not found in environment variables"

\* With the API key set, a call for a segment that is all stage direction
\* was rejected as empty.
C14_Witness ==
  \E k \in DOMAIN calls :
    /\ apiKey
    /\ EmptyAfterCleaning(calls[k])
    /\ calls[k].seg \in DOMAIN segments
    /\ Len(segments[calls[k].seg].text) > 0
    /\ calls[k].thrown.message = "Text segment is empty after cleaning."

----------------------------------------------------------------------------
(* C15 *)

\* No open is followed, anywhere later in s, by a close.
NoSpan(s, open, close) ==
  ~ \E i, j \in DOMAIN s : i < j /\ s[i] = open /\ s[j] = close

RECURSIVE IsSubsequence(_, _)
IsSubsequence(a, b) ==
  IF a = <<>> THEN TRUE
  ELSE IF b = <<>> THEN FALSE
  ELSE IF Head(a) = Head(b) THEN IsSubsequence(Tail(a), Tail(b))
  ELSE IsSubsequence(a, Tail(b))

Visible(ch) == ch \notin Whitespace

\* Position p of s lies between no open and a later close.
Outside(s, p, open, close) ==
  ~ \E i, j \in DOMAIN s : i <= p /\ p <= j /\ i < j /\ s[i] = open /\ s[j] = close

\* The characters of s from position p on that no reading of the spans
\* removes: visible, no markdown marker, and outside every pair of brackets.
RECURSIVE SurelyKept(_, _)
SurelyKept(s, p) ==
  IF p > Len(s) THEN <<>>
  ELSE IF /\ Visible(s[p]) /\ s[p] \notin Markdown
          /\ Outside(s, p, "[", "]") /\ Outside(s, p, "(", ")")
       THEN <<s[p]>> \o SurelyKept(s, p + 1)
       ELSE SurelyKept(s, p + 1)

Cleaned(text, clean) ==
  /\ NoSpan(clean, "[", "]")
  /\ NoSpan(clean, "(", ")")
  /\ \A i \in DOMAIN clean : clean[i] \notin Markdown
  /\ clean # <<>> => (Visible(clean[1]) /\ Visible(clean[Len(clean)]))
  /\ \A i \in 1 .. (Len(clean) - 1) : Visible(clean[i]) \/ Visible(clean[i + 1])
  /\ IsSubsequence(SelectSeq(clean, Visible), text)
  /\ IsSubsequence(SurelyKept(text, 1), clean)

\* C15: the text in every prompt sent holds no complete [...] span, no
\* complete (...) span and no markdown marker, neither begins nor ends with
\* whitespace, holds no two whitespace characters in a row, and holds the
\* characters of the input outside the removed spans in their order.
C15_CleanedText ==
  \A k \in DOMAIN calls :
    /\ \A j \in DOMAIN calls[k].requests :
         calls[k].requests[j].text = calls[k].requests[1].text
    /\ calls[k].requests # <<>> => Cleaned(script, calls[k].requests[1].text)

\* The raw fallback prompt was sent for a text of which a bracketed span and
\* a blank were removed and something is left.
C15_Witness ==
  \E k \in DOMAIN calls :
    /\ Len(calls[k].requests) = 3
    /\ ~NoSpan(script, "[", "]")
    /\ \E i \in DOMAIN script : ~Visible(script[i])
    /\ Len(calls[k].requests[3].text) = 1

----------------------------------------------------------------------------
(* C16 *)

\* The last position of the line of s that begins at p.
RECURSIVE LineEnd(_, _)
LineEnd(s, p) ==
  IF p = Len(s) \/ s[p + 1] = "\n" THEN p ELSE LineEnd(s, p + 1)

\* The lines of s from position p on that hold a visible character, each
\* from its first to its last visible character.
RECURSIVE TrimmedLines(_, _)
TrimmedLines(s, p) ==
  IF p > Len(s) THEN <<>>
  ELSE IF s[p] = "\n" THEN TrimmedLines(s, p + 1)
  ELSE LET q == LineEnd(s, p)
           shown == {i \in p .. q : Visible(s[i])}
           first == CHOOSE i \in shown : \A j \in shown : i <= j
           last == CHOOSE i \in shown : \A j \in shown : j <= i
       IN (IF shown = {} THEN <<>> ELSE <<SubSeq(s, first, last)>>)
            \o TrimmedLines(s, q + 1)

\* A step of handleGenerateScenes up to its first await or its return.
ScenesStep == runs' # runs /\ task'.kind # "single"

\* C16: cutting a script into scenes yields one segment for each line that
\* holds a visible character, with the trimmed line as its text, in the order
\* of the lines; when there is no such line the error is "Script is empty!",
\* the segments stay as they were and no synthesis call is made.
C16_Segments ==
  [][ ScenesStep =>
        LET lines == TrimmedLines(script, 1)
        IN IF lines = <<>>
           THEN /\ error' = "Script is empty!"
                /\ segments' = segments
                /\ \A k \in DOMAIN calls' : ~calls'[k].live
                /\ ~isGenerating'
           ELSE /\ error' = NoError
                /\ Len(segments') = Len(lines)
                /\ \A i \in DOMAIN lines : segments'[i].text = lines[i]
                /\ Len(calls') = 1 ]_vars

\* A script that begins with a blank and has a blank line was cut into two
\* scenes.
C16_Witness ==
  /\ Len(segments) = 2
  /\ script[1] = " "
  /\ \E i \in 1 .. (Len(script) - 1) : script[i] = "\n" /\ script[i + 1] = "\n"

----------------------------------------------------------------------------
(* C17 *)

Drawn == waveform # NoWaveform

\* C17: a waveform drawn w pixels wide has exactly w magnitudes, each in
\* [0, 1].
C17_WidthMagnitudes ==
  Drawn => /\ Len(waveform.bars) = waveform.width
           /\ \A i \in DOMAIN waveform.bars :
                0 <= waveform.bars[i] /\ waveform.bars[i] <= Pow16

\* Every magnitude of a drawn waveform is in [0, 1], and there is one for
\* every third pixel.
C17_MagnitudesInRange ==
  Drawn => /\ Len(waveform.bars) = (waveform.width + BarWidth + Gap - 1)
                                      \div (BarWidth + Gap)
           /\ \A i \in DOMAIN waveform.bars :
                0 <= waveform.bars[i] /\ waveform.bars[i] <= Pow16

----------------------------------------------------------------------------
(* C22 *)

\* The response carries an audio payload of an odd number of bytes.
OddPayload(r) ==
  /\ ~r.raises /\ r.candidates > 0 /\ r.content
  /\ r.audio # <<>> /\ Len(r.audio) % 2 = 1

\* C22: a call whose j-th attempt returned a payload of an odd number of
\* bytes is rejected with the decode error of that payload and has sent no
\* request after the j-th.
C22_DecodeErrorIsFatal ==
  \A k \in DOMAIN calls :
    \A j \in DOMAIN calls[k].responses :
      (calls[k].live /\ OddPayload(calls[k].responses[j])) =>
        /\ calls[k].pc = "rejected"
        /\ calls[k].thrown.message = "RangeError"
        /\ Len(calls[k].requests) = j

----------------------------------------------------------------------------
(* C23 *)

\* How many of the responses of call c are failures.
FailedCount(c) == Cardinality({j \in DOMAIN c.responses : Failed(c.responses[j])})

----------------------------------------------------------------------------
(* C24 *)

\* The four kinds of failure: the call raises, there is no candidate, the
\* candidate did not stop normally and has no content, or its content has no
\* audio payload.
ListedFailure(r) ==
  \/ r.raises
  \/ r.candidates = 0
  \/ (r.finishReason # "STOP" /\ ~r.content)
  \/ ~r.content
  \/ r.audio = <<>>

\* The j-th attempt of call c was not taken as its success.
CountsAsFailed(c, j) == ~(c.pc = "resolved" /\ j = Len(c.responses))

\* The payload of r, if there is one, can be decoded.
Decodable(r) == r.audio = <<>> \/ DecodeAudioData(r.audio, OutputChannels).ok

\* C24: an attempt counts as failed exactly when its response is one of the
\* four kinds of failure.
C24_FailureKinds ==
  \A k \in DOMAIN calls :
    \A j \in DOMAIN calls[k].responses :
      calls[k].live =>
        (CountsAsFailed(calls[k], j) <=> ListedFailure(calls[k].responses[j]))

\* The same for the attempts whose payload, if any, can be decoded.
C24_DecodableFailureKinds ==
  \A k \in DOMAIN calls :
    \A j \in DOMAIN calls[k].responses :
      (calls[k].live /\ Decodable(calls[k].responses[j])) =>
        (CountsAsFailed(calls[k], j) <=> ListedFailure(calls[k].responses[j]))

----------------------------------------------------------------------------
(* C26 *)

\* The sample times 32767 when it is not negative, times 32768 when it is,
\* cut to an integer; the sample is a numerator over 65536.
ScaledAsymmetric(sample) ==
  IF sample >= 0 THEN TruncDiv(sample * (Pow15 - 1), Pow16)
  ELSE TruncDiv(sample, Quantum)

\* The two bytes written for frame i of channel c.
SampleBytes(blob, numOfChan, c, i) ==
  LET offset == HeaderBytes + 2 * ((i - 1) * numOfChan + (c - 1))
  IN SubSeq(blob, offset + 1, offset + 2)

\* Between -0.5 and 0: negative, and not below -0.5.
SmallNegative(sample) == sample < 0 /\ Pow15 + sample >= 0

\* C26: the bytes the encoder writes for a sample are the 16-bit integer of
\* the clamped sample scaled by 32767 when it is not negative and by 32768
\* when it is negative.
C26_AsymmetricScaling ==
  wavBlob # NoData =>
    \A c \in DOMAIN bufferData : \A i \in DOMAIN bufferData[c] :
      SampleBytes(wavBlob, Len(bufferData), c, i)
        = Int16LE(ScaledAsymmetric(Clamp(bufferData[c][i])))

\* The same for the samples that are not between -0.5 and 0.
C26_ScalingBelowHalf ==
  wavBlob # NoData =>
    \A c \in DOMAIN bufferData : \A i \in DOMAIN bufferData[c] :
      ~SmallNegative(bufferData[c][i]) =>
        SampleBytes(wavBlob, Len(bufferData), c, i)
          = Int16LE(ScaledAsymmetric(Clamp(bufferData[c][i])))

----------------------------------------------------------------------------
(* C25 *)

\* C25: while a buffer is bound the offset kept for the next play() lies
\* between 0 and the duration of that buffer.
C25_OffsetInBuffer ==
  audioBuffer # Null => (0 <= pausedAtRef /\ pausedAtRef <= Duration(audioBuffer))

----------------------------------------------------------------------------
(* C21 *)

\* C21: at most one progress tick is requested, and only while playing: the
\* tick of the play() whose source the player holds, for the bound buffer.
C21_OneProgressLoop ==
  /\ Cardinality(rafPending) <= 1
  /\ \A id \in rafPending :
       /\ isPlaying
       /\ id = sourceRef
       /\ sources[id].buf = audioBuffer

----------------------------------------------------------------------------
(* C27 *)

\* C27: at most one AudioContext created by the application is open.
C27_OneAudioContext == audioContexts <= 1

----------------------------------------------------------------------------
(* C29 *)

\* C29: the active video, when there is one, is the video of a segment of
\* the current list.
C29_ActiveVideoOfSegment ==
  activeVideoUrl # Null =>
    \E i \in DOMAIN segments : segments[i].videoUrl = activeVideoUrl

----------------------------------------------------------------------------
(* C30 *)

\* C30: a segment has the synthesis status 'completed' exactly when it has
\* an audio buffer.
C30_CompletedIffBuffer ==
  \A i \in DOMAIN segments :
    segments[i].status = "completed" <=> segments[i].audioBuffer # Null

\* While the batch is still synthesising the second segment, the first has
\* its audio and its video.
C30_Witness ==
  /\ isGenerating
  /\ Len(segments) = 2
  /\ segments[1].status = "completed"
  /\ segments[1].audioBuffer # Null
  /\ segments[1].videoStatus = "completed"
  /\ segments[2].status = "generating"

----------------------------------------------------------------------------
(* C28 *)

\* Video generation j has been started and has neither returned nor failed.
VideoRunning(j) ==
  j \in DOMAIN videoJobs /\ videoJobs[j].pc \notin {"resolved", "rejected", "done"}

\* C28: a synthesis call sends at most three requests, and every video
\* generation that was started returns or fails.
C28_BoundedRemoteCalls ==
  /\ [](\A k \in DOMAIN calls : Len(calls[k].requests) <= 3)
  /\ \A j \in 1 .. MaxJobs : VideoRunning(j) ~> ~VideoRunning(j)

\* The part of C28 about the synthesis alone.
C28_SynthesisBounded ==
  \A k \in DOMAIN calls : Len(calls[k].requests) <= 3 /\ calls[k].waits <= 3 * BackoffMs

====
